---- MODULE Spec2Model ----
(***************************************************************************)
(* A model of the ndarray library (src/ndarray.hpp, first revision in the  *)
(* file): the access-pattern algebra, the select and replace operators,    *)
(* and the memory-backed providers (shared_provider_t, unique_provider_t   *)
(* over buffer_t).                                                         *)
(*                                                                         *)
(* Sequences (shape_t, index_t, jumps_t, memory_strides_t) are TLA+        *)
(* tuples; axis n of the source is position n + 1 here.  std::size_t is an *)
(* unsigned word of WordBits bits: every size_t operation is taken modulo  *)
(* SizeMax, as the C++ arithmetic is modulo 2^64.                          *)
(***************************************************************************)
EXTENDS Integers, Sequences, FiniteSets, TLC

VARIABLES
    op,                 \* which operation the current state is the result of
    region,             \* access_pattern_t: [start, final, jumps]
    array_shape,        \* shape of the array an operator is applied to
    replacement_shape,  \* shape of replacer_t::replacement_array
    outcome,            \* "none", "ok" (operator returned), "throws"
    result_shape,       \* shape of the array an operator returned
    result,             \* replace: the returned array's value at each index
    current,            \* access_pattern_t::iterator::current
    visited,            \* the indexes a range-for over the pattern has seen
    local,              \* an index handed to map_index
    mapped,             \* map_index(local)
    unmapped,           \* inverse_map_index(mapped)
    heap,               \* address -> the live new[] block there, or Free
    prov,               \* provider objects: slot -> provider record
    args                \* operands of the last provider operation

vars == <<op, region, array_shape, replacement_shape, outcome, result_shape,
          result, current, visited, local, mapped, unmapped, heap, prov,
          args>>

patternVars == <<op, region, array_shape, replacement_shape, outcome,
                 result_shape, result, current, visited, local, mapped,
                 unmapped>>

providerVars == <<heap, prov, args>>

-----------------------------------------------------------------------------
(* Bounds of the model *)

\* width of std::size_t in the model
WordBits == 4

\* largest coordinate or extent an input is drawn from
MaxCoord == 3

\* largest jump an input is drawn from
MaxJump == 2

\* number of provider (or array) objects alive at once
NumSlots == 2

\* largest buffer, in elements, a provider is made with
MaxVolume == 2

\* largest extent, and largest volume, a reshape is asked for
MaxReshape == 4

\* largest element value written
MaxValue == 1

\* the ranks the templates are instantiated at
Ranks == {1, 2}

SizeMax == 2 ^ WordBits

Word == 0 .. (SizeMax - 1)

\* unsigned wrap-around of a size_t result
wrap(x) == x % SizeMax

Coords == 0 .. MaxCoord

Jumps == 1 .. MaxJump

\* shape_t<Rank> / index_t<Rank> values the inputs are drawn from
SmallSeqs(r) == [1 .. r -> Coords]

JumpSeqs(r) == [1 .. r -> Jumps]

\* every index_t<Rank> value
AllIndexes(r) == [1 .. r -> Word]

-----------------------------------------------------------------------------
(* shape_t, index_t, memory_strides_t *)

RECURSIVE product(_, _)
product(s, n) == IF n = 0 THEN 1 ELSE wrap(product(s, n - 1) * s[n])

\* shape_t::volume
volume(shape) == product(shape, Len(shape))

\* shape_t::contains
shape_contains(shape, index) ==
    ~ \E i \in 1 .. Len(shape) : shape[i] <= index[i]

\* shape_t::last_index; the shape's extents as an index
last_index(shape) == [n \in 1 .. Len(shape) |-> shape[n]]

\* index_t::operator<=, component-wise
index_le(a, b) == \A i \in 1 .. Len(a) : a[i] <= b[i]

\* index_t::operator>=, component-wise
index_ge(a, b) == \A i \in 1 .. Len(a) : a[i] >= b[i]

make_uniform_index(r, v) == [n \in 1 .. r |-> v]

-----------------------------------------------------------------------------
(* access_pattern_t *)

\* access_pattern_t::shape
pattern_shape(p) ==
    [n \in 1 .. Len(p.start) |->
        wrap((p.final[n] \div p.jumps[n]) - (p.start[n] \div p.jumps[n]))]

\* access_pattern_t::size
pattern_size(p) == volume(pattern_shape(p))

\* access_pattern_t::empty
pattern_empty(p) == pattern_size(p) = 0

\* access_pattern_t::contains
pattern_contains(p, index) == shape_contains(pattern_shape(p), index)

\* access_pattern_t::map_index
map_index(p, index) ==
    [n \in 1 .. Len(p.start) |-> wrap(p.start[n] + p.jumps[n] * index[n])]

\* access_pattern_t::inverse_map_index
inverse_map_index(p, mapped_index) ==
    [n \in 1 .. Len(p.start) |->
        wrap(mapped_index[n] - p.start[n]) \div p.jumps[n]]

\* access_pattern_t::generates
generates(p, mapped_index) ==
    ~ \E n \in 1 .. Len(p.start) :
        \/ mapped_index[n] < p.start[n]
        \/ mapped_index[n] >= p.final[n]
        \/ wrap(mapped_index[n] - p.start[n]) % p.jumps[n] # 0

\* access_pattern_t::within
within(p, parent_shape) ==
    LET zero == make_uniform_index(Len(p.start), 0)
        t1 == map_index(p, zero)
        t2 == map_index(p, last_index(pattern_shape(p)))
    IN  /\ index_ge(t1, zero)
        /\ index_le(t1, last_index(parent_shape))
        /\ index_ge(t2, zero)
        /\ index_le(t2, last_index(parent_shape))

\* the while loop of access_pattern_t::advance, entered with index[n] already
\* incremented
RECURSIVE advance_carry(_, _, _)
advance_carry(p, index, n) ==
    IF index[n] >= p.final[n]
    THEN IF n = 1
         THEN [index |-> p.final, more |-> FALSE]
         ELSE advance_carry(p,
                  [index EXCEPT ![n] = p.start[n],
                                ![n - 1] = wrap(@ + p.jumps[n - 1])],
                  n - 1)
    ELSE [index |-> index, more |-> TRUE]

\* access_pattern_t::advance: the moved index and the returned boolean
advance(p, index) ==
    LET n == Len(p.start)
    IN  advance_carry(p, [index EXCEPT ![n] = wrap(@ + p.jumps[n])], n)

\* the access patterns the inputs are drawn from
Patterns(r) ==
    [start : SmallSeqs(r), final : SmallSeqs(r), jumps : JumpSeqs(r)]

-----------------------------------------------------------------------------
(* Values of the variables a specification does not use *)

NoPattern == [start |-> <<>>, final |-> <<>>, jumps |-> <<>>]

\* a heap address no live block is at
Free == [live |-> FALSE, cells |-> <<>>]

\* a live new[] block and its elements
block(cells) == [live |-> TRUE, cells |-> cells]

NoProvider == [kind |-> "none"]

NoShape == <<>>

NoIndex == <<>>

NoResult == <<>>

PatternIdle ==
    /\ op = "init"
    /\ region = NoPattern
    /\ array_shape = NoShape
    /\ replacement_shape = NoShape
    /\ outcome = "none"
    /\ result_shape = NoShape
    /\ result = NoResult
    /\ current = NoIndex
    /\ visited = <<>>
    /\ local = NoIndex
    /\ mapped = NoIndex
    /\ unmapped = NoIndex

ProviderIdle ==
    /\ heap = <<>>
    /\ prov = <<>>
    /\ args = <<>>

-----------------------------------------------------------------------------
(* select and replace: an operator applied to an array                     *)
(*                                                                         *)
(* The arrays an operator is applied to are computed arrays whose value at *)
(* an index names the array and the index read, so that the value of a     *)
(* composed array tells which source was read and where.                   *)

\* array(index), the array the operator is applied to
array_value(index) == <<"array", index>>

\* replacement_array(index)
replacement_value(index) == <<"replacement", index>>

\* the indexes contained in a shape of small extents
IndexesOf(shape) ==
    {i \in [1 .. Len(shape) -> Coords] : shape_contains(shape, i)}

\* selector_t::operator(): the mapping of the returned array
selector_mapping(p, index) == array_value(map_index(p, index))

\* selector_t::operator(): whether the out-of-bounds check lets the pattern by
selector_accepts(p, shape) == within(p, shape)

\* replacer_t::operator() without the inverse map of the index
replacer_mapping_no_inverse(p, index) ==
    IF generates(p, index)
    THEN replacement_value(index)
    ELSE array_value(index)

\* replacer_t::operator(): the mapping of the returned array
replacer_mapping(p, index) ==
    IF generates(p, index)
    THEN replacement_value(inverse_map_index(p, index))
    ELSE array_value(index)

\* replacer_t::operator(): whether the shape check lets the replacement by
replacer_accepts(p, shape) == pattern_shape(p) = shape

InitCompose ==
    /\ ProviderIdle
    /\ op = "init"
    /\ \E r \in Ranks :
          /\ region \in Patterns(r)
          /\ array_shape \in SmallSeqs(r)
    /\ replacement_shape = NoShape
    /\ outcome = "none"
    /\ result_shape = NoShape
    /\ result = NoResult
    /\ current = NoIndex
    /\ visited = <<>>
    /\ local = NoIndex
    /\ mapped = NoIndex
    /\ unmapped = NoIndex

\* array | select(region)
Select ==
    /\ op = "init"
    /\ op' = "select"
    /\ IF selector_accepts(region, array_shape)
       THEN /\ outcome' = "ok"
            /\ result_shape' = pattern_shape(region)
       ELSE /\ outcome' = "throws"
            /\ result_shape' = NoShape
    /\ UNCHANGED <<region, array_shape, replacement_shape, result, current,
                   visited, local, mapped, unmapped, providerVars>>

\* array | replace(region, replacement_array); the replacement has the
\* region's shape or the shape of the array to patch
Replace ==
    /\ op = "init"
    /\ op' = "replace"
    /\ replacement_shape' \in {pattern_shape(region), array_shape}
    /\ IF replacer_accepts(region, replacement_shape')
       THEN /\ outcome' = "ok"
            /\ result_shape' = array_shape
            /\ result' = [i \in IndexesOf(array_shape) |->
                              replacer_mapping(region, i)]
       ELSE /\ outcome' = "throws"
            /\ result_shape' = NoShape
            /\ result' = NoResult
    /\ UNCHANGED <<region, array_shape, current, visited, local, mapped,
                   unmapped, providerVars>>

NextCompose ==
    \/ Select
    \/ Replace

SpecCompose == InitCompose /\ [][NextCompose]_vars

-----------------------------------------------------------------------------
(* An access pattern on its own: iteration, map_index, inverse_map_index   *)

InitPattern ==
    /\ ProviderIdle
    /\ op = "init"
    /\ \E r \in Ranks : region \in Patterns(r)
    /\ array_shape = NoShape
    /\ replacement_shape = NoShape
    /\ outcome = "none"
    /\ result_shape = NoShape
    /\ result = NoResult
    /\ current = region.start
    /\ visited = <<>>
    /\ local = NoIndex
    /\ mapped = NoIndex
    /\ unmapped = NoIndex

\* access_pattern_t::begin
pattern_begin(p) == p.start

\* access_pattern_t::end
pattern_end(p) == p.final

\* iterator::operator!=
iterator_differs(a, b) == a # b

\* one turn of `for (auto index : region)`: the iterator differs from end(),
\* the body sees *it, then ++it
IterateStep ==
    /\ op \in {"init", "iterate"}
    /\ iterator_differs(current, pattern_end(region))
    /\ op' = "iterate"
    /\ visited' = Append(visited, current)
    /\ current' = advance(region, current).index
    /\ UNCHANGED <<region, array_shape, replacement_shape, outcome,
                   result_shape, result, local, mapped, unmapped,
                   providerVars>>

\* the range-for has left its loop
IterationDone ==
    /\ op \in {"init", "iterate"}
    /\ ~ iterator_differs(current, pattern_end(region))

\* region.map_index(i), for an index i the pattern contains
MapIndex ==
    /\ op = "init"
    /\ \E i \in AllIndexes(Len(region.start)) :
          /\ pattern_contains(region, i)
          /\ local' = i
          /\ mapped' = map_index(region, i)
    /\ op' = "map_index"
    /\ UNCHANGED <<region, array_shape, replacement_shape, outcome,
                   result_shape, result, current, visited, unmapped,
                   providerVars>>

\* region.inverse_map_index(mapped)
InverseMapIndex ==
    /\ op = "map_index"
    /\ unmapped' = inverse_map_index(region, mapped)
    /\ op' = "inverse_map_index"
    /\ UNCHANGED <<region, array_shape, replacement_shape, outcome,
                   result_shape, result, current, visited, local, mapped,
                   providerVars>>

NextPattern ==
    \/ IterateStep
    \/ MapIndex
    \/ InverseMapIndex

SpecPattern == InitPattern /\ [][NextPattern]_vars

-----------------------------------------------------------------------------
(* Memory-backed providers: buffer_t, unique_provider_t, shared_provider_t *)
(*                                                                         *)
(* heap[a] is the new[] block at address a (block(cells)), or Free.  A     *)
(* slot of prov is a provider object (or the array that wraps it: array_t  *)
(* forwards data(), shape(), size() and indexing to its provider).  The    *)
(* std::shared_ptr<buffer_t> of a shared provider is its buffer record:    *)
(* the pointee is never moved from, and it is freed with its last holder.  *)

\* nullptr
Null == 0

Slots == 1 .. NumSlots

\* addresses operator new[] can return; a provider owns at most one block
Addrs == 1 .. NumSlots

\* element values; ValueType() is 0
Values == 0 .. MaxValue

\* buffer_t(): the default-constructed buffer, also what a move leaves behind
EmptyBuffer == [memory |-> Null, count |-> 0]

\* the shapes providers are made with
ProviderShapes ==
    UNION {{sh \in SmallSeqs(r) : volume(sh) <= MaxVolume} : r \in Ranks}

\* the shapes a reshape is asked for
ReshapeShapes == UNION {[1 .. r -> 0 .. MaxReshape] : r \in Ranks}

RECURSIVE stride_at(_, _)
stride_at(shape, n) ==
    IF n = Len(shape) THEN 1 ELSE wrap(stride_at(shape, n + 1) * shape[n + 1])

\* strides with the first axis fastest
make_strides_column_major(shape) ==
    [n \in 1 .. Len(shape) |-> product(shape, n - 1)]

\* make_strides_row_major
make_strides_row_major(shape) ==
    [n \in 1 .. Len(shape) |-> stride_at(shape, n)]

RECURSIVE offset_sum(_, _, _)
offset_sum(strides, index, n) ==
    IF n = 0 THEN 0
    ELSE wrap(offset_sum(strides, index, n - 1) + index[n] * strides[n])

\* memory_strides_t::compute_offset with every stride taken as 1
compute_offset_unit_strides(strides, index) ==
    offset_sum([n \in 1 .. Len(strides) |-> 1], index, Len(index))

\* memory_strides_t::compute_offset
compute_offset(strides, index) == offset_sum(strides, index, Len(index))

\* buffer_t(buffer_t&&) leaving the source as it was
buffer_move_keeps_source(b) == [taken |-> b, left |-> b]

\* buffer_t(buffer_t&&): what the new buffer holds, what the source is left as
buffer_move(b) == [taken |-> b, left |-> EmptyBuffer]

\* the elements between buffer.begin() and buffer.end(), value-initialised
\* instead of read
buffer_contents_default(h, b) == [k \in 1 .. b.count |-> 0]

\* the elements between buffer.begin() and buffer.end()
buffer_contents(h, b) == IF b.memory = Null THEN <<>> ELSE h[b.memory].cells

\* buffer_t(b.begin(), b.end()) keeping b's block instead of the new one
range_buffer_aliased(b, a) == b

\* buffer_t(b.begin(), b.end()): count is the distance between the two
\* pointers, memory the new block at a
range_buffer(b, a) == [memory |-> a, count |-> b.count]

\* delete [] memory
delete_memory(h, memory) ==
    IF memory = Null THEN h ELSE [h EXCEPT ![memory] = Free]

FreeAddrs(h) == {a \in Addrs : h[a] = Free}

\* the constructor of unique_provider_t, whatever kind is asked for
make_provider_unique(kind, shape, b) ==
    [kind |-> "unique", the_shape |-> shape,
     strides |-> make_strides_row_major(shape), buffer |-> b]

\* the constructors of unique_provider_t and shared_provider_t
make_provider(kind, shape, b) ==
    [kind |-> kind, the_shape |-> shape,
     strides |-> make_strides_row_major(shape), buffer |-> b]

\* the check both constructors make after taking the buffer
sizes_match(shape, b) == volume(shape) = b.count

\* provider(index): buffer[strides.compute_offset(index)]
provider_value(h, pr, index) ==
    h[pr.buffer.memory].cells[compute_offset(pr.strides, index) + 1]

\* whether the provider in a slot holds a buffer
holds_memory(pr) == pr.kind \in {"unique", "shared"} /\ pr.buffer.memory # Null

\* the variables of the other specifications, left alone by provider actions
patternRest == <<region, array_shape, replacement_shape, result_shape, result,
                 current, visited, local, mapped, unmapped>>

Init ==
    /\ op = "init"
    /\ region = NoPattern
    /\ array_shape = NoShape
    /\ replacement_shape = NoShape
    /\ outcome = "none"
    /\ result_shape = NoShape
    /\ result = NoResult
    /\ current = NoIndex
    /\ visited = <<>>
    /\ local = NoIndex
    /\ mapped = NoIndex
    /\ unmapped = NoIndex
    /\ heap = [a \in Addrs |-> Free]
    /\ prov = [p \in Slots |-> NoProvider]
    /\ args = <<>>

\* buffer_t(count): a new block of count value-initialised elements
new_buffer(a, count) == [memory |-> a, count |-> count]

\* auto q = make_unique_provider<ValueType>(shape)
MakeUniqueProvider(q, shape) ==
    /\ prov[q].kind = "none"
    /\ \E a \in FreeAddrs(heap) :
          /\ heap' = [heap EXCEPT ![a] =
                        block([k \in 1 .. volume(shape) |-> 0])]
          /\ prov' = [prov EXCEPT ![q] =
                 make_provider("unique", shape,
                     buffer_move(new_buffer(a, volume(shape))).taken)]
    /\ op' = "make_unique"
    /\ outcome' = "ok"
    /\ args' = [dst |-> q]
    /\ UNCHANGED patternRest

\* auto q = make_shared_provider<ValueType>(shape)
MakeSharedProvider(q, shape) ==
    /\ prov[q].kind = "none"
    /\ \E a \in FreeAddrs(heap) :
          /\ heap' = [heap EXCEPT ![a] =
                        block([k \in 1 .. volume(shape) |-> 0])]
          /\ prov' = [prov EXCEPT ![q] =
                 make_provider("shared", shape, new_buffer(a, volume(shape)))]
    /\ op' = "make_shared"
    /\ outcome' = "ok"
    /\ args' = [dst |-> q]
    /\ UNCHANGED patternRest

\* p(index) = v, through the non-const operator() of a unique provider; the
\* caller keeps index inside the shape and does not index a moved-from
\* provider
Write(p, index, v) ==
    /\ prov[p].kind = "unique"
    /\ prov[p].buffer.memory # Null
    /\ Len(index) = Len(prov[p].the_shape)
    /\ shape_contains(prov[p].the_shape, index)
    /\ heap' = [heap EXCEPT ![prov[p].buffer.memory].cells =
                  [@ EXCEPT ![compute_offset(prov[p].strides, index) + 1] = v]]
    /\ op' = "write"
    /\ outcome' = "ok"
    /\ args' = [dst |-> p]
    /\ UNCHANGED <<prov, patternRest>>

\* auto q = make_array(std::move(p)), or any other move construction of a
\* unique provider: the_shape and strides are copied, the buffer is moved
MoveConstruct(p, q) ==
    /\ prov[p].kind = "unique"
    /\ prov[q].kind = "none"
    /\ LET mv == buffer_move(prov[p].buffer)
       IN  prov' = [prov EXCEPT ![q] = [prov[p] EXCEPT !.buffer = mv.taken],
                                ![p] = [prov[p] EXCEPT !.buffer = mv.left]]
    /\ op' = "move_construct"
    /\ outcome' = "ok"
    /\ args' = [src |-> p, dst |-> q]
    /\ UNCHANGED <<heap, patternRest>>

\* q = std::move(p), both unique providers of one rank (p and q may be the
\* same object): buffer_t::operator=(buffer_t&&) deletes q's block, takes p's
\* members, then empties p
MoveAssign(p, q) ==
    /\ prov[p].kind = "unique"
    /\ prov[q].kind = "unique"
    /\ Len(prov[p].the_shape) = Len(prov[q].the_shape)
    /\ LET mv == buffer_move(prov[p].buffer)
           taken == [prov EXCEPT ![q] = [prov[p] EXCEPT !.buffer = mv.taken]]
       IN  /\ heap' = delete_memory(heap, prov[q].buffer.memory)
           /\ prov' = [taken EXCEPT ![p] = [taken[p] EXCEPT !.buffer = mv.left]]
    /\ op' = "move_assign"
    /\ outcome' = "ok"
    /\ args' = [src |-> p, dst |-> q]
    /\ UNCHANGED patternRest

\* the rest of a step that throws before anything is produced
Throws ==
    /\ outcome' = "throws"
    /\ UNCHANGED <<heap, prov>>

\* auto q = p.shared(), p an lvalue unique provider: buffer_t(begin, end)
\* copies the elements into a new block, which the shared provider's
\* constructor takes unless the_shape.volume() differs from its count
SharedCopy(p, q) ==
    /\ prov[p].kind = "unique"
    /\ prov[q].kind = "none"
    /\ \E a \in FreeAddrs(heap) :
          LET copied == buffer_contents(heap, prov[p].buffer)
              made == range_buffer(prov[p].buffer, a)
          IN  IF sizes_match(prov[p].the_shape, made)
              THEN /\ outcome' = "ok"
                   /\ heap' = [heap EXCEPT ![a] = block(copied)]
                   /\ prov' = [prov EXCEPT ![q] =
                          make_provider("shared", prov[p].the_shape, made)]
              ELSE Throws
    /\ op' = "shared_copy"
    /\ args' = [src |-> p, dst |-> q]
    /\ UNCHANGED patternRest

\* auto q = std::move(p).shared(): the buffer is moved into the shared
\* buffer; when the constructor then throws, the shared buffer is destroyed
\* with what it took
SharedMove(p, q) ==
    /\ prov[p].kind = "unique"
    /\ prov[q].kind = "none"
    /\ LET mv == buffer_move(prov[p].buffer)
           emptied == [prov EXCEPT ![p] = [prov[p] EXCEPT !.buffer = mv.left]]
       IN  IF sizes_match(prov[p].the_shape, mv.taken)
           THEN /\ outcome' = "ok"
                /\ heap' = heap
                /\ prov' = [emptied EXCEPT ![q] =
                       make_provider("shared", prov[p].the_shape, mv.taken)]
           ELSE /\ outcome' = "throws"
                /\ heap' = delete_memory(heap, mv.taken.memory)
                /\ prov' = emptied
    /\ op' = "shared_move"
    /\ args' = [src |-> p, dst |-> q]
    /\ UNCHANGED patternRest

\* auto q = p, p a shared provider or array: the shared_ptr is copied
CopyShared(p, q) ==
    /\ prov[p].kind = "shared"
    /\ prov[q].kind = "none"
    /\ prov' = [prov EXCEPT ![q] = prov[p]]
    /\ op' = "copy_shared"
    /\ outcome' = "ok"
    /\ args' = [src |-> p, dst |-> q]
    /\ UNCHANGED <<heap, patternRest>>

\* the provider in slot p goes out of scope: ~buffer_t deletes the block of
\* a unique provider, and of a shared provider that is the last holder
Destroy(p) ==
    /\ prov[p].kind # "none"
    /\ prov' = [prov EXCEPT ![p] = NoProvider]
    /\ heap' = IF /\ prov[p].kind = "shared"
                  /\ \E o \in Slots \ {p} :
                        /\ prov[o].kind = "shared"
                        /\ prov[o].buffer.memory = prov[p].buffer.memory
               THEN heap
               ELSE delete_memory(heap, prov[p].buffer.memory)
    /\ op' = "destroy"
    /\ outcome' = "ok"
    /\ args' = [dst |-> p]
    /\ UNCHANGED patternRest

\* make_access_pattern(shape) starting one step along the last axis
make_access_pattern_skipping(shape) ==
    [start |-> [n \in 1 .. Len(shape) |-> IF n = Len(shape) THEN 1 ELSE 0],
     final |-> last_index(shape),
     jumps |-> make_uniform_index(Len(shape), 1)]

\* make_access_pattern(shape): start 0, final the shape, jumps 1
make_access_pattern(shape) ==
    [start |-> make_uniform_index(Len(shape), 0),
     final |-> last_index(shape),
     jumps |-> make_uniform_index(Len(shape), 1)]

\* the indexes `for (auto index : accessor)` hands to its body, in order,
\* from an iterator at index on
RECURSIVE loop_indexes(_, _)
loop_indexes(p, index) ==
    IF iterator_differs(index, pattern_end(p))
    THEN <<index>> \o loop_indexes(p, advance(p, index).index)
    ELSE <<>>

\* the elements of the live blocks: an address and a position
cells_of(h) ==
    {c \in Addrs \X (1 .. MaxVolume) : c[2] <= Len(h[c[1]].cells)}

\* the heaps one out-of-bounds write can leave: it lands on no element, or
\* on one element of a live block, with any value
overrun_once(h) ==
    {h} \cup {[h EXCEPT ![c[1]].cells[c[2]] = v] :
                 c \in cells_of(h), v \in Values}

\* the heaps a run of out-of-bounds writes can leave
RECURSIVE Overrun(_, _)
Overrun(h, writes) ==
    IF writes = 0 THEN {h}
    ELSE UNION {overrun_once(g) : g \in Overrun(h, writes - 1)}

\* evaluate_as_unique, and evaluate_as_shared for kind "shared": a unique
\* provider of the source's shape is made, target(index) = source(index) is
\* assigned over the access pattern of that shape, and (shared) the result's
\* buffer is moved into a shared provider.  An assignment at an offset
\* outside the new block is undefined behaviour: see Overrun.  source is the
\* source provider's value at each index of its shape.
evaluate_as(kind, target_shape, source, q) ==
    LET strides == make_strides_row_major(target_shape)
        count == volume(target_shape)
        accessor == make_access_pattern(target_shape)
        seen == loop_indexes(accessor, pattern_begin(accessor))
        offset(j) == compute_offset(strides, seen[j])
        inside == {j \in 1 .. Len(seen) : offset(j) < count}
        outside == (1 .. Len(seen)) \ inside
        last_write(k) ==
            CHOOSE j \in inside :
                /\ offset(j) = k - 1
                /\ \A i \in inside : offset(i) = k - 1 => i <= j
        filled == [k \in 1 .. count |->
                     IF \E j \in inside : offset(j) = k - 1
                     THEN source[seen[last_write(k)]]
                     ELSE 0]
    IN  \E a \in FreeAddrs(heap) :
           /\ heap' \in Overrun([heap EXCEPT ![a] = block(filled)],
                                Cardinality(outside))
           /\ prov' = [prov EXCEPT ![q] =
                  make_provider(kind, target_shape,
                      buffer_move(new_buffer(a, count)).taken)]

\* auto q = p.unique() / p.shared() / p | to_unique() / p | to_shared(), p a
\* memory-backed array that holds its buffer
Evaluate(p, q, kind) ==
    /\ holds_memory(prov[p])
    /\ prov[q].kind = "none"
    /\ LET source == [i \in IndexesOf(prov[p].the_shape) |->
                         provider_value(heap, prov[p], i)]
       IN  evaluate_as(kind, prov[p].the_shape, source, q)
    /\ op' = "evaluate"
    /\ outcome' = "ok"
    /\ args' = [src |-> p, dst |-> q, kind |-> kind]
    /\ UNCHANGED patternRest

\* auto q = nd::zeros<ValueType>(shape).unique() / .shared(), nd::ones, or
\* any array of one value: the source is computed, nothing is read from
\* memory
EvaluateUniform(shape, v, q, kind) ==
    /\ prov[q].kind = "none"
    /\ LET source == [i \in IndexesOf(shape) |-> v]
       IN  evaluate_as(kind, shape, source, q)
    /\ op' = "evaluate_uniform"
    /\ outcome' = "ok"
    /\ args' = [dst |-> q, shape |-> shape, value |-> v, kind |-> kind]
    /\ UNCHANGED patternRest

\* shared_provider_t::reshape: a shared provider of the new shape over the
\* same shared buffer
reshape_shared(p, q, new_shape) ==
    IF sizes_match(new_shape, prov[p].buffer)
    THEN /\ outcome' = "ok"
         /\ heap' = heap
         /\ prov' = [prov EXCEPT ![q] =
                make_provider("shared", new_shape, prov[p].buffer)]
    ELSE Throws

\* unique_provider_t::reshape() const&: a unique provider of the new shape
\* over a copy of the elements
reshape_unique_copy(p, q, new_shape) ==
    \E a \in FreeAddrs(heap) :
       LET copied == buffer_contents(heap, prov[p].buffer)
           made == buffer_move(range_buffer(prov[p].buffer, a)).taken
       IN  IF sizes_match(new_shape, made)
           THEN /\ outcome' = "ok"
                /\ heap' = [heap EXCEPT ![a] = block(copied)]
                /\ prov' = [prov EXCEPT ![q] =
                       make_provider("unique", new_shape, made)]
           ELSE Throws

\* auto q = p.reshape(new_shape), p a shared provider
ReshapeShared(p, q, new_shape) ==
    /\ prov[p].kind = "shared"
    /\ prov[q].kind = "none"
    /\ reshape_shared(p, q, new_shape)
    /\ op' = "reshape_shared"
    /\ args' = [src |-> p, dst |-> q, shape |-> new_shape]
    /\ UNCHANGED patternRest

\* auto q = p.reshape(new_shape), p an lvalue unique provider
ReshapeUniqueCopy(p, q, new_shape) ==
    /\ prov[p].kind = "unique"
    /\ prov[q].kind = "none"
    /\ reshape_unique_copy(p, q, new_shape)
    /\ op' = "reshape_copy"
    /\ args' = [src |-> p, dst |-> q, shape |-> new_shape]
    /\ UNCHANGED patternRest

\* auto q = std::move(p).reshape(new_shape), p a unique provider: the buffer
\* is moved into the new provider, and destroyed with it when the
\* constructor throws
ReshapeUniqueMove(p, q, new_shape) ==
    /\ prov[p].kind = "unique"
    /\ prov[q].kind = "none"
    /\ LET mv == buffer_move(prov[p].buffer)
           emptied == [prov EXCEPT ![p] = [prov[p] EXCEPT !.buffer = mv.left]]
       IN  IF sizes_match(new_shape, mv.taken)
           THEN /\ outcome' = "ok"
                /\ heap' = heap
                /\ prov' = [emptied EXCEPT ![q] =
                       make_provider("unique", new_shape, mv.taken)]
           ELSE /\ outcome' = "throws"
                /\ heap' = delete_memory(heap, mv.taken.memory)
                /\ prov' = emptied
    /\ op' = "reshape_move"
    /\ args' = [src |-> p, dst |-> q, shape |-> new_shape]
    /\ UNCHANGED patternRest

\* auto q = p | nd::reshape(new_shape), p a memory-backed array: the operator
\* compares new_shape.volume() with provider.size(), then calls reshape on
\* the const reference get_provider() returns
ArrayReshape(p, q, new_shape) ==
    /\ prov[p].kind \in {"unique", "shared"}
    /\ prov[q].kind = "none"
    /\ IF volume(new_shape) # volume(prov[p].the_shape)
       THEN Throws
       ELSE IF prov[p].kind = "shared"
            THEN reshape_shared(p, q, new_shape)
            ELSE reshape_unique_copy(p, q, new_shape)
    /\ op' = "array_reshape"
    /\ args' = [src |-> p, dst |-> q, shape |-> new_shape]
    /\ UNCHANGED patternRest

Next ==
    \/ \E q \in Slots, sh \in ProviderShapes : MakeUniqueProvider(q, sh)
    \/ \E q \in Slots, sh \in ProviderShapes : MakeSharedProvider(q, sh)
    \/ \E p \in Slots, v \in Values, r \in Ranks :
          \E i \in SmallSeqs(r) : Write(p, i, v)
    \/ \E p, q \in Slots : MoveConstruct(p, q)
    \/ \E p, q \in Slots : MoveAssign(p, q)
    \/ \E p, q \in Slots : SharedCopy(p, q)
    \/ \E p, q \in Slots : SharedMove(p, q)
    \/ \E p, q \in Slots : CopyShared(p, q)
    \/ \E p, q \in Slots, kind \in {"unique", "shared"} : Evaluate(p, q, kind)
    \/ \E q \in Slots, sh \in ProviderShapes, v \in Values :
          \E kind \in {"unique", "shared"} : EvaluateUniform(sh, v, q, kind)
    \/ \E p, q \in Slots, sh \in ProviderShapes : ReshapeShared(p, q, sh)
    \/ \E p, q \in Slots, sh \in ProviderShapes : ReshapeUniqueCopy(p, q, sh)
    \/ \E p, q \in Slots, sh \in ProviderShapes : ReshapeUniqueMove(p, q, sh)
    \/ \E p, q \in Slots, sh \in ProviderShapes : ArrayReshape(p, q, sh)
    \/ \E p \in Slots : Destroy(p)

Spec == Init /\ [][Next]_vars

-----------------------------------------------------------------------------
(* Reshape on its own, over larger buffers                                 *)

\* the shapes of the provider a reshape starts from
SourceShapes ==
    UNION {{sh \in SmallSeqs(r) : volume(sh) <= MaxReshape} : r \in Ranks}

\* slot 1 holds a unique or a shared provider with any elements, as
\* make_unique_provider, writes and std::move(p).shared() leave it
InitReshape ==
    /\ PatternIdle
    /\ args = <<>>
    /\ \E sh \in SourceShapes, kind \in {"unique", "shared"} :
          \E cells \in [1 .. volume(sh) -> Values] :
             /\ heap = [a \in Addrs |-> IF a = 1 THEN block(cells) ELSE Free]
             /\ prov = [p \in Slots |->
                           IF p = 1
                           THEN make_provider(kind, sh,
                                    new_buffer(1, volume(sh)))
                           ELSE NoProvider]

NextReshape ==
    \/ \E p, q \in Slots, sh \in ReshapeShapes : ReshapeShared(p, q, sh)
    \/ \E p, q \in Slots, sh \in ReshapeShapes : ReshapeUniqueCopy(p, q, sh)
    \/ \E p, q \in Slots, sh \in ReshapeShapes : ReshapeUniqueMove(p, q, sh)
    \/ \E p, q \in Slots, sh \in ReshapeShapes : ArrayReshape(p, q, sh)
    \/ \E p \in Slots : Destroy(p)

SpecReshape == InitReshape /\ [][NextReshape]_vars

-----------------------------------------------------------------------------
(* Claims about select, replace and the access pattern                     *)

\* start <= final on every axis
Ordered(p) == \A n \in 1 .. Len(p.start) : p.start[n] <= p.final[n]

\* C1: if `A | select(P)` succeeds then, for every index i contained in the
\* result's shape, the index of A the result reads, P.map_index(i), is
\* contained in A.shape(): whatever P's start and final are (jumps >= 1).
C1_SelectReadsInsideArray ==
    (op = "select" /\ outcome = "ok") =>
        \A i \in AllIndexes(Len(result_shape)) :
            shape_contains(result_shape, i) =>
                shape_contains(array_shape, selector_mapping(region, i)[2])

\* C2: for a pattern with jumps >= 1 and start <= final on every axis, a
\* finished iteration from begin() to end() has visited exactly the indexes
\* { map_index(i) : i contained in shape() }, size() of them.
C2_ShapeMatchesIteration ==
    (IterationDone /\ Ordered(region)) =>
        /\ {visited[k] : k \in 1 .. Len(visited)} =
               {map_index(region, i) : i \in IndexesOf(pattern_shape(region))}
        /\ Len(visited) = pattern_size(region)

\* C3: for every pattern P (jumps >= 1) and every index i contained in
\* P.shape(), P.inverse_map_index(P.map_index(i)) = i.
C3_MapIndexRoundTrip ==
    (op = "inverse_map_index") => unmapped = local

\* the region of section 4.1, written out axis by axis: start <= i < final
\* and i - start a multiple of jumps
InRegion(p, i) ==
    \A n \in 1 .. Len(i) :
        /\ p.start[n] <= i[n]
        /\ i[n] < p.final[n]
        /\ \E k \in Word : i[n] = p.start[n] + k * p.jumps[n]

\* the local index of a region index i: the k with i = start + k * jumps
LocalOf(p, i) ==
    [n \in 1 .. Len(i) |->
        CHOOSE k \in Word : i[n] = p.start[n] + k * p.jumps[n]]

\* C4: a successful `A | replace(P, R)` has A's shape, and its value at each
\* index i of that shape is R's value at the local index of i when i is in
\* the region P, and A's value at i otherwise.
C4_ReplaceRegionOnly ==
    (op = "replace" /\ outcome = "ok") =>
        /\ result_shape = array_shape
        /\ DOMAIN result = IndexesOf(array_shape)
        /\ \A i \in IndexesOf(array_shape) :
              result[i] = IF InRegion(region, i)
                          THEN replacement_value(LocalOf(region, i))
                          ELSE array_value(i)

\* C4: a replace that succeeded, with an index inside the region whose local
\* index differs from it and an index outside the region
C4_Witness ==
    /\ op = "replace"
    /\ outcome = "ok"
    /\ \E i, j \in IndexesOf(array_shape) :
          /\ InRegion(region, i)
          /\ result[i] = replacement_value(LocalOf(region, i))
          /\ LocalOf(region, i) # i
          /\ ~ InRegion(region, j)
          /\ result[j] = array_value(j)

-----------------------------------------------------------------------------
(* Claims about the memory-backed providers                                *)

\* provider.size()
provider_size(pr) == volume(pr.the_shape)

\* C5: a step that leaves a shared provider alive leaves the value it returns
\* at every index of its shape as it was, whatever the step is: a write
\* through a unique provider, a reshape, a copy, a move, a conversion by
\* shared() or unique(), the destruction of another provider.
C5_SharedValuesNeverChange ==
    [][\A p \in Slots :
          (prov[p].kind = "shared" /\ prov'[p] = prov[p]) =>
              \A i \in IndexesOf(prov[p].the_shape) :
                  provider_value(heap', prov'[p], i) =
                      provider_value(heap, prov[p], i)]_vars

\* C6: in every reachable state, the block a unique provider holds is held
\* by no other provider, unique or shared.
C6_UniqueBufferNeverAliased ==
    \A p \in Slots :
        (prov[p].kind = "unique" /\ prov[p].buffer.memory # Null) =>
            \A o \in Slots \ {p} :
                prov[o].kind # "none" =>
                    prov[o].buffer.memory # prov[p].buffer.memory

\* C6: after a conversion or a reshape of a unique provider that holds its
\* block, two providers hold blocks, one of them unique
C6_Witness ==
    /\ op \in {"shared_copy", "reshape_copy", "evaluate"}
    /\ outcome = "ok"
    /\ prov[args.src].kind = "unique"
    /\ holds_memory(prov[args.src])
    /\ holds_memory(prov[args.dst])

\* C7: a step that move-constructs a unique provider (make_array(std::move(p)))
\* or converts it by std::move(p).shared() gives the result the data pointer
\* the source had, with the elements the source had, changes no block, and
\* leaves the source's data pointer null.
C7_MoveKeepsPointer ==
    [][(op' \in {"move_construct", "shared_move"} /\ outcome' = "ok") =>
          LET source == prov[args'.src]
              moved == prov'[args'.dst]
          IN  /\ moved.buffer.memory = source.buffer.memory
              /\ moved.the_shape = source.the_shape
              /\ heap' = heap
              /\ source.buffer.memory # Null =>
                    \A i \in IndexesOf(source.the_shape) :
                        provider_value(heap', moved, i) =
                            provider_value(heap, source, i)
              /\ prov'[args'.src].buffer.memory = Null]_vars

\* C7: std::move(p).shared() has moved a block with a written element to the
\* shared provider and left p empty
C7_Witness ==
    /\ op = "shared_move"
    /\ outcome = "ok"
    /\ prov[args.dst].kind = "shared"
    /\ holds_memory(prov[args.dst])
    /\ \E k \in 1 .. prov[args.dst].buffer.count :
          heap[prov[args.dst].buffer.memory].cells[k] # 0
    /\ prov[args.src].buffer.memory = Null

ReshapeOps == {"reshape_shared", "reshape_copy", "reshape_move", "array_reshape"}

\* C9: a reshape of a shared or unique provider or array to new_shape
\* succeeds, returning a provider of that shape, if and only if
\* new_shape.volume() equals the size() of the provider before the call, and
\* otherwise throws and returns nothing.
C9_ReshapeIffVolumesMatch ==
    [][op' \in ReshapeOps =>
          /\ (outcome' = "ok") <=>
                 (volume(args'.shape) = provider_size(prov[args'.src]))
          /\ outcome' = "ok" => prov'[args'.dst].the_shape = args'.shape
          /\ outcome' # "ok" =>
                 (outcome' = "throws" /\ prov'[args'.dst].kind = "none")]_vars

\* the row-major flat offset of an index in a shape, by Horner's rule
RECURSIVE RowMajorOffset(_, _, _)
RowMajorOffset(shape, index, n) ==
    IF n = 0 THEN 0
    ELSE RowMajorOffset(shape, index, n - 1) * shape[n] + index[n]

\* the indexes a shape of extents up to MaxReshape contains
ReshapeIndexes(shape) ==
    {i \in [1 .. Len(shape) -> 0 .. MaxReshape] : shape_contains(shape, i)}

\* C10: a successful reshape of a shared provider (or shared array) returns
\* a shared provider whose data pointer is the original's, allocates and
\* changes no block, and the element at each row-major flat offset is the
\* same read through the original shape and through the new shape.
C10_ReshapeSharesBuffer ==
    [][(/\ op' \in {"reshape_shared", "array_reshape"}
        /\ prov[args'.src].kind = "shared"
        /\ outcome' = "ok") =>
          LET original == prov[args'.src]
              reshaped == prov'[args'.dst]
          IN  /\ reshaped.kind = "shared"
              /\ reshaped.the_shape = args'.shape
              /\ reshaped.buffer.memory = original.buffer.memory
              /\ heap' = heap
              /\ prov'[args'.src] = original
              /\ \A k \in 0 .. (provider_size(original) - 1) :
                    \A i \in ReshapeIndexes(original.the_shape) :
                       \A j \in ReshapeIndexes(reshaped.the_shape) :
                          (/\ RowMajorOffset(original.the_shape, i, Len(i)) = k
                           /\ RowMajorOffset(reshaped.the_shape, j, Len(j)) = k)
                            => provider_value(heap', reshaped, j) =
                                   provider_value(heap, original, i)]_vars

\* C10: a shared provider of shape (2, 2) whose elements are not all equal
\* has been reshaped to a rank-1 shape of the same volume
C10_Witness ==
    /\ op = "reshape_shared"
    /\ outcome = "ok"
    /\ prov[args.src].the_shape = <<2, 2>>
    /\ Len(args.shape) = 1
    /\ prov[args.dst].buffer.memory = prov[args.src].buffer.memory
    /\ \E k \in 1 .. prov[args.src].buffer.count :
          heap[prov[args.src].buffer.memory].cells[k] #
              heap[prov[args.src].buffer.memory].cells[1]

-----------------------------------------------------------------------------
(* Claims about evaluation                                                 *)

-----------------------------------------------------------------------------
(* Operators applied to an array                                           *)
(*                                                                         *)
(* The array A an operator is applied to is memory-backed: slot 1 holds    *)
(* its provider.  An access to the returned array is recorded by the index *)
(* of A it reads (mapped) and by the name of the element it returns.  The  *)
(* second operand of zip_arrays, binary_op, concat and replace is named by *)
(* replacement_value.                                                      *)

MaxDelta == 3

MaxPartitions == 3

MaxGroups == 4

\* the int values shift_by is given
Deltas == (0 - MaxDelta) .. MaxDelta

\* the axes an operator is asked for: those of a rank-2 array and one more
Axes == 0 .. 2

\* std::abs
abs(d) == IF d < 0 THEN 0 - d ELSE d

\* detail::remove_elements: the elements of source at the positions (from
\* 0) that are not in indexes, in order
remove_elements(source, indexes) ==
    LET keep == {n \in 1 .. Len(source) :
                    \A k \in 1 .. Len(indexes) : indexes[k] # n - 1}
        kept(m) == CHOOSE n \in keep :
                       Cardinality({j \in keep : j < n}) = m - 1
    IN  [m \in 1 .. Cardinality(keep) |-> source[kept(m)]]

\* detail::insert_elements: position n (from 0) of the result takes the next
\* of values if n is in indexes, and the next of source otherwise
insert_elements(source, indexes, values) ==
    LET listed(n) == \E k \in 1 .. Len(indexes) : indexes[k] = n - 1
        before(n, taken) ==
            Cardinality({j \in 1 .. n : listed(j) = taken})
    IN  [n \in 1 .. Len(source) + Len(indexes) |->
            IF listed(n) THEN values[before(n, TRUE)]
            ELSE source[before(n, FALSE)]]

\* axis_selector_t::operator(): the shape of the returned array
axis_selector_shape(shape, axis, start, final, from_the_end) ==
    [n \in 1 .. Len(shape) |->
        IF n = axis + 1
        THEN wrap(shape[n] - wrap(start + (IF from_the_end THEN final
                                           ELSE wrap(shape[n] - final))))
        ELSE shape[n]]

\* axis_selector_t::operator(): the index of the array the mapping reads
axis_selector_index(index, axis, start) ==
    [n \in 1 .. Len(index) |->
        IF n = axis + 1 THEN wrap(index[n] + start) ELSE index[n]]

\* axis_shifter_t::operator(): the shape of the returned array
axis_shifter_shape(shape, axis, delta) ==
    [n \in 1 .. Len(shape) |->
        IF n = axis + 1 THEN wrap(shape[n] - abs(delta)) ELSE shape[n]]

\* axis_shifter_t::operator(): the index of the array the mapping reads;
\* index[axis] -= delta converts the int to std::size_t
axis_shifter_index(index, axis, delta) ==
    [n \in 1 .. Len(index) |->
        IF n = axis + 1 THEN wrap(index[n] - delta) ELSE index[n]]

\* axis_freezer_t::operator(): the index of the array the mapping reads
axis_freezer_index(index, axes_to_freeze, index_to_freeze_at) ==
    insert_elements(index, axes_to_freeze, index_to_freeze_at)

\* concatenator_t::operator(): the shape of the returned array
concatenator_shape(shape, axis, shape_to_concat) ==
    [n \in 1 .. Len(shape) |->
        IF n = axis + 1 THEN wrap(shape[n] + shape_to_concat[n])
        ELSE shape[n]]

\* concatenator_t::operator(): the element the mapping returns
concatenator_mapping(shape, axis, index) ==
    IF index[axis + 1] >= shape[axis + 1]
    THEN replacement_value([index EXCEPT ![axis + 1] =
                                wrap(@ - shape[axis + 1])])
    ELSE array_value(index)

\* the operators whose returned array ReadResult reads
Readable == {"select_axis", "shift_by", "freeze_axis", "bounds_check",
             "zip_arrays", "binary_op", "concat"}

\* A is nd::zeros<int>(shape).unique() or .shared(), held in slot 1
InitOperators ==
    /\ op = "init"
    /\ region = NoPattern
    /\ \E r \in Ranks : array_shape \in SmallSeqs(r)
    /\ replacement_shape = NoShape
    /\ outcome = "none"
    /\ result_shape = NoShape
    /\ result = NoResult
    /\ current = NoIndex
    /\ visited = <<>>
    /\ local = NoIndex
    /\ mapped = NoIndex
    /\ unmapped = NoIndex
    /\ args = <<>>
    /\ heap = [a \in Addrs |->
                  IF a = 1 THEN block([k \in 1 .. volume(array_shape) |-> 0])
                  ELSE Free]
    /\ \E kind \in {"unique", "shared"} :
          prov = [p \in Slots |->
                     IF p = 1
                     THEN make_provider(kind, array_shape,
                              new_buffer(1, volume(array_shape)))
                     ELSE NoProvider]

\* what an operator application leaves alone
operatorRest == <<region, array_shape, result, current, visited, local,
                  mapped, unmapped, heap, prov>>

\* A | select_axis(axis).from(start).to(final), with .from_the_end() when
\* from_the_end, but for the check of the axis
SelectAxisUnchecked(axis, start, final, from_the_end) ==
    /\ op = "init"
    /\ op' = "select_axis"
    /\ args' = [operator |-> "select_axis", axis |-> axis, start |-> start,
                final |-> final, from_the_end |-> from_the_end]
    /\ outcome' = "ok"
    /\ result_shape' = axis_selector_shape(array_shape, axis, start, final,
                                           from_the_end)
    /\ UNCHANGED <<replacement_shape, operatorRest>>

\* A | select_axis(axis).from(start).to(final), with .from_the_end() when
\* from_the_end
SelectAxis(axis, start, final, from_the_end) ==
    /\ op = "init"
    /\ op' = "select_axis"
    /\ args' = [operator |-> "select_axis", axis |-> axis, start |-> start,
                final |-> final, from_the_end |-> from_the_end]
    /\ IF axis >= Len(array_shape)
       THEN /\ outcome' = "throws"
            /\ result_shape' = NoShape
       ELSE /\ outcome' = "ok"
            /\ result_shape' = axis_selector_shape(array_shape, axis, start,
                                                   final, from_the_end)
    /\ UNCHANGED <<replacement_shape, operatorRest>>

\* A | shift_by(delta).along_axis(axis)
ShiftBy(axis, delta) ==
    /\ op = "init"
    /\ op' = "shift_by"
    /\ args' = [operator |-> "shift_by", axis |-> axis, delta |-> delta]
    /\ IF axis >= Len(array_shape)
       THEN /\ outcome' = "throws"
            /\ result_shape' = NoShape
       ELSE IF abs(delta) >= array_shape[axis + 1]
            THEN /\ outcome' = "throws"
                 /\ result_shape' = NoShape
            ELSE /\ outcome' = "ok"
                 /\ result_shape' = axis_shifter_shape(array_shape, axis,
                                                       delta)
    /\ UNCHANGED <<replacement_shape, operatorRest>>

\* A | freeze_axis(axis).at_index(at), A of rank 2 or more
FreezeAxis(axis, at) ==
    /\ op = "init"
    /\ Len(array_shape) >= 2
    /\ op' = "freeze_axis"
    /\ args' = [operator |-> "freeze_axis", axis |-> axis, at |-> at]
    /\ IF axis >= Len(array_shape)
       THEN /\ outcome' = "throws"
            /\ result_shape' = NoShape
       ELSE /\ outcome' = "ok"
            /\ result_shape' = remove_elements(array_shape, <<axis>>)
    /\ UNCHANGED <<replacement_shape, operatorRest>>

\* A | collect(reduction).along_axis(axis), A of rank 2 or more
Collect(axis) ==
    /\ op = "init"
    /\ Len(array_shape) >= 2
    /\ op' = "collect"
    /\ args' = [operator |-> "collect", axis |-> axis]
    /\ IF axis >= Len(array_shape)
       THEN /\ outcome' = "throws"
            /\ result_shape' = NoShape
       ELSE /\ outcome' = "ok"
            /\ result_shape' = remove_elements(array_shape, <<axis>>)
    /\ UNCHANGED <<replacement_shape, operatorRest>>

\* A | bounds_check()
BoundsCheck ==
    /\ op = "init"
    /\ op' = "bounds_check"
    /\ args' = [operator |-> "bounds_check"]
    /\ outcome' = "ok"
    /\ result_shape' = array_shape
    /\ UNCHANGED <<replacement_shape, operatorRest>>

\* zip_arrays(A, B), B of the given shape
ZipArrays(shape) ==
    /\ op = "init"
    /\ Len(shape) = Len(array_shape)
    /\ op' = "zip_arrays"
    /\ args' = [operator |-> "zip_arrays"]
    /\ replacement_shape' = shape
    /\ IF array_shape # shape
       THEN /\ outcome' = "throws"
            /\ result_shape' = NoShape
       ELSE /\ outcome' = "ok"
            /\ result_shape' = array_shape
    /\ UNCHANGED operatorRest

\* binary_op(function)(A, B), and A + B, A == B and the other operators of
\* array_t, which promote B (an array already) and call it
BinaryOp(shape) ==
    /\ op = "init"
    /\ Len(shape) = Len(array_shape)
    /\ op' = "binary_op"
    /\ args' = [operator |-> "binary_op"]
    /\ replacement_shape' = shape
    /\ IF array_shape # shape
       THEN /\ outcome' = "throws"
            /\ result_shape' = NoShape
       ELSE /\ outcome' = "ok"
            /\ result_shape' = array_shape
    /\ UNCHANGED operatorRest

\* A | concat(B).on_axis(axis), but for the check of the other axes
ConcatUnchecked(axis, shape) ==
    /\ op = "init"
    /\ Len(shape) = Len(array_shape)
    /\ op' = "concat"
    /\ args' = [operator |-> "concat", axis |-> axis]
    /\ replacement_shape' = shape
    /\ IF axis >= Len(array_shape)
       THEN /\ outcome' = "throws"
            /\ result_shape' = NoShape
       ELSE /\ outcome' = "ok"
            /\ result_shape' = concatenator_shape(array_shape, axis, shape)
    /\ UNCHANGED operatorRest

\* A | concat(B).on_axis(axis), B of the given shape
Concat(axis, shape) ==
    /\ op = "init"
    /\ Len(shape) = Len(array_shape)
    /\ op' = "concat"
    /\ args' = [operator |-> "concat", axis |-> axis]
    /\ replacement_shape' = shape
    /\ IF axis >= Len(array_shape)
       THEN /\ outcome' = "throws"
            /\ result_shape' = NoShape
       ELSE IF remove_elements(shape, <<axis>>)
                 # remove_elements(array_shape, <<axis>>)
            THEN /\ outcome' = "throws"
                 /\ result_shape' = NoShape
            ELSE /\ outcome' = "ok"
                 /\ result_shape' = concatenator_shape(array_shape, axis,
                                                       shape)
    /\ UNCHANGED operatorRest

\* A | replace(p, B), B of the region's shape or of A's shape
ReplaceRegion(p) ==
    /\ op = "init"
    /\ Len(p.start) = Len(array_shape)
    /\ op' = "replace"
    /\ args' = [operator |-> "replace"]
    /\ region' = p
    /\ replacement_shape' \in {pattern_shape(p), array_shape}
    /\ IF replacer_accepts(p, replacement_shape')
       THEN /\ outcome' = "ok"
            /\ result_shape' = array_shape
            /\ result' = [i \in IndexesOf(array_shape) |->
                              replacer_mapping(p, i)]
       ELSE /\ outcome' = "throws"
            /\ result_shape' = NoShape
            /\ result' = NoResult
    /\ UNCHANGED <<array_shape, current, visited, local, mapped, unmapped,
                   heap, prov>>

\* A | reshape(new_shape), the reshaped array's provider going to slot 2
Reshape(new_shape) ==
    /\ op = "init"
    /\ ArrayReshape(1, 2, new_shape)

\* partition_shape<NumPartitions>(shape): access pattern n (from 1) of the
\* result
partition_pattern(shape, NumPartitions, n) ==
    LET p == make_access_pattern(shape)
    IN  [p EXCEPT
            !.start[1] = wrap((n - 1) * shape[1]) \div NumPartitions,
            !.final[1] = wrap(n * shape[1]) \div NumPartitions]

\* partition_shape<NumPartitions>(A.shape())
PartitionShape(NumPartitions) ==
    /\ op = "init"
    /\ op' = "partition_shape"
    /\ args' = [operator |-> "partition_shape", count |-> NumPartitions]
    /\ outcome' = "ok"
    /\ result' = [n \in 1 .. NumPartitions |->
                     partition_pattern(array_shape, NumPartitions, n)]
    /\ UNCHANGED <<region, array_shape, replacement_shape, result_shape,
                   current, visited, local, mapped, unmapped, heap, prov>>

\* uniform_provider_t(the_shape, the_value)
make_uniform_provider(value, shape) ==
    [kind |-> "uniform", the_shape |-> shape, the_value |-> value]

\* uniform_provider_t::operator(): the value, whatever the index
uniform_value(pr, index) == pr.the_value

\* uniform_provider_t::reshape
uniform_reshape(pr, new_shape) ==
    make_uniform_provider(pr.the_value, new_shape)

\* make_uniform_provider(v, A.shape()).reshape(new_shape)
ReshapeUniformProvider(v, new_shape) ==
    /\ op = "init"
    /\ op' = "reshape_uniform"
    /\ args' = [operator |-> "reshape_uniform", value |-> v,
                shape |-> new_shape]
    /\ outcome' = "ok"
    /\ result' = uniform_reshape(make_uniform_provider(v, array_shape),
                                 new_shape)
    /\ result_shape' = new_shape
    /\ UNCHANGED <<region, array_shape, replacement_shape, current, visited,
                   local, mapped, unmapped, heap, prov>>

\* make_array(make_uniform_provider(v, A.shape())) | reshape(new_shape)
ReshapeUniformArray(v, new_shape) ==
    /\ op = "init"
    /\ op' = "array_reshape_uniform"
    /\ args' = [operator |-> "array_reshape_uniform", value |-> v,
                shape |-> new_shape]
    /\ LET provider == make_uniform_provider(v, array_shape)
       IN  IF volume(new_shape) # volume(provider.the_shape)
           THEN /\ outcome' = "throws"
                /\ result' = NoResult
                /\ result_shape' = NoShape
           ELSE /\ outcome' = "ok"
                /\ result' = uniform_reshape(provider, new_shape)
                /\ result_shape' = new_shape
    /\ UNCHANGED <<region, array_shape, replacement_shape, current, visited,
                   local, mapped, unmapped, heap, prov>>

\* divvy: start and final of a group, the size divided before the product
divvy_bounds_short(size, num_groups, group) ==
    [start |-> wrap(group * (size \div num_groups)),
     final |-> wrap((group + 1) * (size \div num_groups))]

\* divvy: start and final of the group at group_index[0] = group
divvy_bounds(size, num_groups, group) ==
    [start |-> wrap(group * size) \div num_groups,
     final |-> wrap((group + 1) * size) \div num_groups]

\* divvy: the elements of the array a loop over the group at group reads, in
\* order
divvy_group(shape, num_groups, group) ==
    LET bounds == divvy_bounds(volume(shape), num_groups, group)
        accessor == make_access_pattern(<<wrap(bounds.final - bounds.start)>>)
        seen == loop_indexes(accessor, pattern_begin(accessor))
    IN  [k \in 1 .. Len(seen) |->
            array_value(<<wrap(bounds.start + seen[k][1])>>)]

\* A | divvy(num_groups), A of rank 1, with every group of the returned
\* array read in a loop over the array of groups
Divvy(num_groups) ==
    /\ op = "init"
    /\ Len(array_shape) = 1
    /\ op' = "divvy"
    /\ args' = [operator |-> "divvy", num_groups |-> num_groups]
    /\ outcome' = "ok"
    /\ result_shape' = <<num_groups>>
    /\ LET accessor == make_access_pattern(result_shape')
           seen == loop_indexes(accessor, pattern_begin(accessor))
       IN  result' = [k \in 1 .. Len(seen) |->
                         divvy_group(array_shape, num_groups, seen[k][1])]
    /\ UNCHANGED <<region, array_shape, replacement_shape, current, visited,
                   local, mapped, unmapped, heap, prov>>

\* bounds_check: the mapping without the check of the index
bounds_check_unchecked(shape, index) ==
    [thrown |-> FALSE, read |-> index]

\* bounds_check: the mapping of the returned array throws, or reads the
\* array at the index
bounds_check_mapping(shape, index) ==
    IF ~shape_contains(shape, index)
    THEN [thrown |-> TRUE, read |-> NoIndex]
    ELSE [thrown |-> FALSE, read |-> index]

\* B(index), B the array the operator returned; the caller keeps index
\* inside B's shape, except to try bounds_check
ReadResult(index) ==
    /\ op \in Readable
    /\ outcome = "ok"
    /\ Len(index) = Len(result_shape)
    /\ op = "bounds_check" \/ shape_contains(result_shape, index)
    /\ op' = "read"
    /\ local' = index
    /\ CASE op = "select_axis" ->
               /\ mapped' = axis_selector_index(index, args.axis, args.start)
               /\ result' = array_value(mapped')
               /\ outcome' = "ok"
         [] op = "shift_by" ->
               /\ mapped' = axis_shifter_index(index, args.axis, args.delta)
               /\ result' = array_value(mapped')
               /\ outcome' = "ok"
         [] op = "freeze_axis" ->
               /\ mapped' = axis_freezer_index(index, <<args.axis>>,
                                               <<args.at>>)
               /\ result' = array_value(mapped')
               /\ outcome' = "ok"
         [] op = "bounds_check" ->
               LET checked == bounds_check_mapping(array_shape, index)
               IN  /\ mapped' = checked.read
                   /\ result' = IF checked.thrown THEN NoResult
                                ELSE array_value(checked.read)
                   /\ outcome' = IF checked.thrown THEN "throws" ELSE "ok"
         [] op \in {"zip_arrays", "binary_op"} ->
               /\ mapped' = index
               /\ result' = <<array_value(index), replacement_value(index)>>
               /\ outcome' = "ok"
         [] op = "concat" ->
               /\ mapped' = index
               /\ result' = concatenator_mapping(array_shape, args.axis,
                                                 index)
               /\ outcome' = "ok"
    /\ UNCHANGED <<region, array_shape, replacement_shape, result_shape,
                   current, visited, unmapped, heap, prov, args>>

NextOperators ==
    \/ \E a \in Axes, x, y \in Coords, e \in BOOLEAN : SelectAxis(a, x, y, e)
    \/ \E a \in Axes, d \in Deltas : ShiftBy(a, d)
    \/ \E a \in Axes, k \in Coords : FreezeAxis(a, k)
    \/ \E a \in Axes : Collect(a)
    \/ BoundsCheck
    \/ \E r \in Ranks : \E sh \in SmallSeqs(r) : ZipArrays(sh)
    \/ \E r \in Ranks : \E sh \in SmallSeqs(r) : BinaryOp(sh)
    \/ \E a \in Axes, r \in Ranks : \E sh \in SmallSeqs(r) : Concat(a, sh)
    \/ \E r \in Ranks : \E p \in Patterns(r) : ReplaceRegion(p)
    \/ \E r \in Ranks : \E sh \in SmallSeqs(r) : Reshape(sh)
    \/ \E r \in Ranks : \E i \in SmallSeqs(r) : ReadResult(i)
    \/ \E n \in 1 .. MaxPartitions : PartitionShape(n)
    \/ \E n \in 1 .. MaxGroups : Divvy(n)
    \/ \E v \in Values, r \in Ranks :
          \E sh \in SmallSeqs(r) : ReshapeUniformProvider(v, sh)
    \/ \E v \in Values, r \in Ranks :
          \E sh \in SmallSeqs(r) : ReshapeUniformArray(v, sh)

SpecOperators == InitOperators /\ [][NextOperators]_vars

-----------------------------------------------------------------------------
(* Claims about the operators                                              *)

\* no element of an operand has been computed and nothing has been
\* allocated: the state of the arrays is as the operator found it
NothingComputed ==
    /\ result_shape = NoShape
    /\ result = NoResult
    /\ local = NoIndex
    /\ mapped = NoIndex
    /\ prov[2] = NoProvider
    /\ heap[2] = Free
    /\ heap[1] = block([k \in 1 .. volume(array_shape) |-> 0])

\* whether two shapes differ on an axis other than the given one
DifferOffAxis(s, t, axis) ==
    \E n \in 1 .. Len(s) : n # axis + 1 /\ s[n] # t[n]

\* C12: zip_arrays and binary_op of arrays of different shapes, concat of
\* arrays that differ on an axis other than the concatenation axis, replace
\* with a replacement whose shape is not the region's, and reshape to a
\* shape of another volume all throw when the operator is applied, and no
\* element of an operand has been computed by then.
C12_MismatchThrowsAtComposition ==
    /\ (op \in {"zip_arrays", "binary_op"}
            /\ array_shape # replacement_shape)
          => (outcome = "throws" /\ NothingComputed)
    /\ (op = "concat" /\ args.axis < Len(array_shape)
            /\ DifferOffAxis(array_shape, replacement_shape, args.axis))
          => (outcome = "throws" /\ NothingComputed)
    /\ (op = "replace" /\ pattern_shape(region) # replacement_shape)
          => (outcome = "throws" /\ NothingComputed)
    /\ (op = "array_reshape"
            /\ volume(args.shape) # volume(array_shape))
          => (outcome = "throws" /\ NothingComputed)

\* C12: a concat of rank-2 arrays that agree on the concatenation axis and
\* differ on the other one has thrown
C12_Witness ==
    /\ op = "concat"
    /\ outcome = "throws"
    /\ Len(array_shape) = 2
    /\ args.axis = 0
    /\ array_shape[1] = replacement_shape[1]
    /\ array_shape[2] # replacement_shape[2]

AxisOperators == {"select_axis", "shift_by", "freeze_axis", "collect"}

\* C13: select_axis, freeze_axis, shift_by and collect applied with an axis
\* that is not below the array's rank throw, with no shape derived and no
\* index remapped; an array they returned was made with an axis below the
\* rank.
C13_AxisCheckedBeforeUse ==
    /\ (op \in AxisOperators /\ args.axis >= Len(array_shape))
          => (outcome = "throws" /\ NothingComputed)
    /\ (op \in AxisOperators /\ outcome = "ok")
          => args.axis < Len(array_shape)
    /\ (op = "read" /\ args.operator \in AxisOperators)
          => args.axis < Len(array_shape)

\* C13: freeze_axis(2) applied to a rank-2 array has thrown
C13_Witness ==
    /\ op = "freeze_axis"
    /\ Len(array_shape) = 2
    /\ args.axis = 2
    /\ outcome = "throws"

\* C14: every index i of B = A | shift_by(d).along_axis(a), whose shape is
\* A's with the extent of axis a reduced by |d|, is read from A at i with
\* coordinate a lowered by d, and that index is contained in A's shape.
C14_ShiftReadsInsideArray ==
    (op = "read" /\ args.operator = "shift_by") =>
        /\ result_shape = [array_shape EXCEPT ![args.axis + 1] =
                               @ - abs(args.delta)]
        /\ \A n \in 1 .. Len(local) :
              mapped[n] = IF n = args.axis + 1 THEN local[n] - args.delta
                          ELSE local[n]
        /\ shape_contains(array_shape, mapped)
        /\ result = array_value(mapped)

\* C14 for d <= 0 only
C14_ShiftBackReadsInsideArray ==
    (op = "read" /\ args.operator = "shift_by" /\ args.delta <= 0) =>
        /\ result_shape = [array_shape EXCEPT ![args.axis + 1] =
                               @ - abs(args.delta)]
        /\ \A n \in 1 .. Len(local) :
              mapped[n] = IF n = args.axis + 1 THEN local[n] - args.delta
                          ELSE local[n]
        /\ shape_contains(array_shape, mapped)
        /\ result = array_value(mapped)

\* C15: every index i of B = A | select_axis(a).from(x).to(y), with or
\* without from_the_end(), is read from A at i with coordinate a raised by
\* x, and that index is contained in A's shape.
C15_SelectAxisReadsInsideArray ==
    (op = "read" /\ args.operator = "select_axis") =>
        /\ \A n \in 1 .. Len(local) :
              mapped[n] = IF n = args.axis + 1 THEN local[n] + args.start
                          ELSE local[n]
        /\ shape_contains(array_shape, mapped)
        /\ result = array_value(mapped)

\* C15 for a selection that lies in the array: from <= to <= extent, or
\* from + to <= extent when to is counted from the end
C15_SelectAxisInsideReadsInside ==
    (/\ op = "read"
     /\ args.operator = "select_axis"
     /\ IF args.from_the_end
        THEN args.start + args.final <= array_shape[args.axis + 1]
        ELSE /\ args.start <= args.final
             /\ args.final <= array_shape[args.axis + 1]) =>
        /\ result_shape[args.axis + 1] =
              IF args.from_the_end
              THEN array_shape[args.axis + 1] - args.start - args.final
              ELSE args.final - args.start
        /\ \A n \in 1 .. Len(local) :
              mapped[n] = IF n = args.axis + 1 THEN local[n] + args.start
                          ELSE local[n]
        /\ shape_contains(array_shape, mapped)
        /\ result = array_value(mapped)

\* C20: (A | bounds_check())(i) returns A(i) when A's shape contains i, and
\* otherwise throws without reading A.
C20_BoundsCheckGuardsRead ==
    (op = "read" /\ args.operator = "bounds_check") =>
        IF shape_contains(array_shape, local)
        THEN /\ outcome = "ok"
             /\ mapped = local
             /\ result = array_value(local)
        ELSE /\ outcome = "throws"
             /\ mapped = NoIndex
             /\ result = NoResult

\* C20: an index outside a rank-2 shape with elements has been read through
\* bounds_check
C20_Witness ==
    /\ op = "read"
    /\ args.operator = "bounds_check"
    /\ Len(array_shape) = 2
    /\ volume(array_shape) > 0
    /\ ~shape_contains(array_shape, local)
    /\ outcome = "throws"

\* whether every index the pattern maps an index of its shape to is
\* contained in the shape
MapsInside(p, shape) ==
    \A i \in AllIndexes(Len(p.start)) :
        shape_contains(pattern_shape(p), i) =>
            shape_contains(shape, map_index(p, i))

\* C16: A | select(P) is accepted for every access pattern P all of whose
\* mapped indexes { P.map_index(i) : i contained in P.shape() } are
\* contained in A.shape(); it throws only for a pattern that maps some index
\* outside.
C16_SelectThrowsOnlyOutside ==
    (op = "select" /\ MapsInside(region, array_shape)) => outcome = "ok"

\* C16 for patterns of jumps 1 with start <= final that are not empty
C16_UnitJumpsThrowOnlyOutside ==
    (/\ op = "select"
     /\ MapsInside(region, array_shape)
     /\ Ordered(region)
     /\ \A n \in 1 .. Len(region.start) : region.jumps[n] = 1
     /\ pattern_size(region) > 0) => outcome = "ok"

\* the indexes a range-for over partition n visits, in order
PartitionVisits(n) == loop_indexes(result[n], pattern_begin(result[n]))

\* C17: the N access patterns of partition_shape<N>(shape) are disjoint and
\* cover the shape: iterating them visits no index outside the shape, and
\* every index of the shape is visited once, by one pattern.
C17_PartitionsDisjointAndCover ==
    op = "partition_shape" =>
        /\ \A n \in 1 .. Len(result) :
              \A k \in 1 .. Len(PartitionVisits(n)) :
                 shape_contains(array_shape, PartitionVisits(n)[k])
        /\ \A i \in IndexesOf(array_shape) :
              Cardinality({v \in (1 .. Len(result)) \X (1 .. SizeMax) :
                              /\ v[2] <= Len(PartitionVisits(v[1]))
                              /\ PartitionVisits(v[1])[v[2]] = i}) = 1

\* C17 for shapes of rank 1, and shapes without a zero extent whose first
\* extent is at least the number of partitions
C17_FullPartitionsDisjointAndCover ==
    (/\ op = "partition_shape"
     /\ \/ Len(array_shape) = 1
        \/ /\ volume(array_shape) > 0
           /\ array_shape[1] >= Len(result)) =>
        /\ \A n \in 1 .. Len(result) :
              \A k \in 1 .. Len(PartitionVisits(n)) :
                 shape_contains(array_shape, PartitionVisits(n)[k])
        /\ \A i \in IndexesOf(array_shape) :
              Cardinality({v \in (1 .. Len(result)) \X (1 .. SizeMax) :
                              /\ v[2] <= Len(PartitionVisits(v[1]))
                              /\ PartitionVisits(v[1])[v[2]] = i}) = 1

-----------------------------------------------------------------------------
(* Reductions: collect(sum()) and where                                    *)
(*                                                                         *)
(* The array A is memory-backed with any elements, its provider in slot 1; *)
(* where is also applied to the computed array of A's shape whose every    *)
(* element is one value (nd::zeros, nd::ones).                             *)

\* A holds any elements
InitReduce ==
    /\ op = "init"
    /\ region = NoPattern
    /\ array_shape \in SourceShapes
    /\ replacement_shape = NoShape
    /\ outcome = "none"
    /\ result_shape = NoShape
    /\ result = NoResult
    /\ current = NoIndex
    /\ visited = <<>>
    /\ local = NoIndex
    /\ mapped = NoIndex
    /\ unmapped = NoIndex
    /\ args = <<>>
    /\ \E cells \in [1 .. volume(array_shape) -> Values] :
          heap = [a \in Addrs |-> IF a = 1 THEN block(cells) ELSE Free]
    /\ \E kind \in {"unique", "shared"} :
          prov = [p \in Slots |->
                     IF p = 1
                     THEN make_provider(kind, array_shape,
                              new_buffer(1, volume(array_shape)))
                     ELSE NoProvider]

\* range_index<Rank>(): 0, 1, ..., Rank - 1
range_index(rank) == [n \in 1 .. rank |-> n - 1]

RECURSIVE sum_from(_, _)
sum_from(values, n) ==
    IF n > Len(values) THEN 0 ELSE values[n] + sum_from(values, n + 1)

\* nd::sum's loop started after the first element
sum_after_first(values) == sum_from(values, 2)

\* nd::sum: result_type() and then result += array(i) for each index of the
\* loop, values being the elements in the order of the loop
sum(values) == sum_from(values, 1)

\* axis_reducer_t::operator(), its mapping: the indexes of the array that
\* the_operator reads through freezer(array), in the order of its loop
axis_reducer_reads(shape, axis, index) ==
    LET axes_to_freeze == remove_elements(range_index(Len(shape)), <<axis>>)
        frozen_shape == remove_elements(shape, axes_to_freeze)
        accessor == make_access_pattern(frozen_shape)
        seen == loop_indexes(accessor, pattern_begin(accessor))
    IN  [k \in 1 .. Len(seen) |->
            axis_freezer_index(seen[k], axes_to_freeze, index)]

\* B(index), B = A | collect(sum()).along_axis(axis); the caller keeps index
\* inside B's shape
ReadCollected(index) ==
    /\ op = "collect"
    /\ outcome = "ok"
    /\ Len(index) = Len(result_shape)
    /\ shape_contains(result_shape, index)
    /\ op' = "read"
    /\ local' = index
    /\ visited' = axis_reducer_reads(array_shape, args.axis, index)
    /\ result' = sum([k \in 1 .. Len(visited') |->
                         provider_value(heap, prov[1], visited'[k])])
    /\ UNCHANGED <<region, array_shape, replacement_shape, outcome,
                   result_shape, current, mapped, unmapped, heap, prov, args>>

\* bool(x)
truthy(x) == IF x # 0 THEN 1 ELSE 0

\* nd::where(array), elements being array(index) for each index of
\* array.indexes() in the order of the loop: the index list is made with
\* sum() elements, filled with the indexes whose element is true, and
\* returned as a shared array, whose elements are kept in visited
where(shape, elements) ==
    LET accessor == make_access_pattern(shape)
        seen == loop_indexes(accessor, pattern_begin(accessor))
        bool_array == [k \in 1 .. Len(seen) |-> truthy(elements[k])]
        hits == {k \in 1 .. Len(seen) : bool_array[k] = 1}
        hit(n) == CHOOSE k \in hits : Cardinality({j \in hits : j < k}) = n - 1
    IN  /\ result_shape' = <<sum(bool_array)>>
        /\ visited' = [n \in 1 .. Cardinality(hits) |-> seen[hit(n)]]

\* the values a read of a memory-backed array can give at the indexes of a
\* loop over its shape: the element, or any value where the offset is
\* outside the buffer (undefined behaviour)
LoopReads(h, pr) ==
    LET accessor == make_access_pattern(pr.the_shape)
        seen == loop_indexes(accessor, pattern_begin(accessor))
    IN  {elements \in [1 .. Len(seen) -> Values] :
            \A k \in 1 .. Len(seen) :
               compute_offset(pr.strides, seen[k]) < pr.buffer.count
                  => elements[k] = provider_value(h, pr, seen[k])}

\* nd::where(A)
WhereArray ==
    /\ op = "init"
    /\ op' = "where"
    /\ args' = [operator |-> "where", uniform |-> FALSE]
    /\ outcome' = "ok"
    /\ \E elements \in LoopReads(heap, prov[1]) : where(array_shape, elements)
    /\ UNCHANGED <<region, array_shape, replacement_shape, result, current,
                   local, mapped, unmapped, heap, prov>>

\* nd::where(nd::zeros<int>(A.shape())), nd::where(nd::ones<int>(A.shape()))
WhereUniform(v) ==
    /\ op = "init"
    /\ op' = "where"
    /\ args' = [operator |-> "where", uniform |-> TRUE, value |-> v]
    /\ outcome' = "ok"
    /\ LET accessor == make_access_pattern(array_shape)
           seen == loop_indexes(accessor, pattern_begin(accessor))
       IN  where(array_shape, [k \in 1 .. Len(seen) |-> v])
    /\ UNCHANGED <<region, array_shape, replacement_shape, result, current,
                   local, mapped, unmapped, heap, prov>>

NextReduce ==
    \/ \E a \in Axes : Collect(a)
    \/ \E r \in Ranks : \E j \in SmallSeqs(r) : ReadCollected(j)
    \/ WhereArray
    \/ \E v \in Values : WhereUniform(v)

SpecReduce == InitReduce /\ [][NextReduce]_vars

\* the sum of A's elements at a set of indexes
RECURSIVE SumOver(_)
SumOver(indexes) ==
    IF indexes = {} THEN 0
    ELSE LET i == CHOOSE i \in indexes : TRUE
         IN  provider_value(heap, prov[1], i) + SumOver(indexes \ {i})

\* index i of the array with the given axis dropped
DropAxis(i, axis) ==
    [n \in 1 .. Len(i) - 1 |-> IF n <= axis THEN i[n] ELSE i[n + 1]]

\* C18: B = A | collect(sum()).along_axis(k) has A's shape with axis k
\* removed, and B(j) is the sum of A(i) over the indexes i of A that agree
\* with j on the other axes.
C18_CollectSumsAlongAxis ==
    /\ (op = "collect" /\ outcome = "ok") =>
          result_shape = DropAxis(array_shape, args.axis)
    /\ (op = "read" /\ args.operator = "collect") =>
          /\ result_shape = DropAxis(array_shape, args.axis)
          /\ result = SumOver({i \in IndexesOf(array_shape) :
                                  DropAxis(i, args.axis) = local})

\* C18: an element of a collected array has been read that sums two
\* elements of A, one of them not zero
C18_Witness ==
    /\ op = "read"
    /\ args.operator = "collect"
    /\ args.axis = 0
    /\ array_shape = <<2, 2>>
    /\ local = <<1>>
    /\ result = 1
    /\ provider_value(heap, prov[1], <<0, 1>>) = 1

\* C19: where(A) returns a 1-d array whose length is the number of indexes
\* of A's shape at which A is true and whose entries are exactly those
\* indexes, once each, in row-major order.
C19_WhereListsTrueIndexes ==
    op = "where" =>
        LET value(i) == IF args.uniform THEN args.value
                        ELSE provider_value(heap, prov[1], i)
            hits == {i \in IndexesOf(array_shape) : value(i) # 0}
        IN  /\ result_shape = <<Cardinality(hits)>>
            /\ Len(visited) = Cardinality(hits)
            /\ {visited[k] : k \in 1 .. Len(visited)} = hits
            /\ \A k, l \in 1 .. Len(visited) :
                  k < l => RowMajorOffset(array_shape, visited[k],
                                          Len(array_shape))
                              < RowMajorOffset(array_shape, visited[l],
                                               Len(array_shape))

\* C19 for arrays of rank 1 and arrays without a zero extent
C19_WhereListsTrueIndexesOfFullShapes ==
    (/\ op = "where"
     /\ Len(array_shape) = 1 \/ volume(array_shape) > 0) =>
        LET value(i) == IF args.uniform THEN args.value
                        ELSE provider_value(heap, prov[1], i)
            hits == {i \in IndexesOf(array_shape) : value(i) # 0}
        IN  /\ result_shape = <<Cardinality(hits)>>
            /\ Len(visited) = Cardinality(hits)
            /\ {visited[k] : k \in 1 .. Len(visited)} = hits
            /\ \A k, l \in 1 .. Len(visited) :
                  k < l => RowMajorOffset(array_shape, visited[k],
                                          Len(array_shape))
                              < RowMajorOffset(array_shape, visited[l],
                                               Len(array_shape))

-----------------------------------------------------------------------------
(* Claims about strides, evaluation and access patterns                    *)

\* every extent of the shape is positive
Positive(shape) == \A n \in 1 .. Len(shape) : shape[n] > 0

\* C21: for every shape with positive extents, the strides of a provider
\* (1 on the last axis, stride[n] = stride[n+1] * extent[n+1] before it) make
\* compute_offset map the indexes of the shape one-to-one onto
\* 0 .. volume - 1, increasing in the order the access pattern of the shape
\* is iterated.
C21_RowMajorOffsetsCountUp ==
    \A p \in Slots :
        (prov[p].kind # "none" /\ Positive(prov[p].the_shape)) =>
            LET shape == prov[p].the_shape
                strides == prov[p].strides
                accessor == make_access_pattern(shape)
                seen == loop_indexes(accessor, pattern_begin(accessor))
            IN  /\ strides[Len(shape)] = 1
                /\ \A n \in 1 .. Len(shape) - 1 :
                      strides[n] = strides[n + 1] * shape[n + 1]
                /\ Len(seen) = volume(shape)
                /\ {seen[k] : k \in 1 .. Len(seen)} = IndexesOf(shape)
                /\ \A k \in 1 .. Len(seen) :
                      compute_offset(strides, seen[k]) = k - 1

\* C21: an array of shape (2, 3) has been reshaped to (3, 2), whose strides
\* are (2, 1)
C21_Witness ==
    /\ op = "array_reshape"
    /\ outcome = "ok"
    /\ array_shape = <<2, 3>>
    /\ prov[2].the_shape = <<3, 2>>
    /\ prov[2].strides = <<2, 1>>
    /\ compute_offset(prov[2].strides, <<2, 1>>) = 5

C23_UniformReshapesToAnyShape ==
    op \in {"reshape_uniform", "array_reshape_uniform"} =>
        /\ outcome = "ok"
        /\ result.the_shape = args.shape
        /\ \A i \in IndexesOf(args.shape) :
              uniform_value(result, i) = args.value

\* C23 for the provider's own reshape
C23_UniformProviderReshapesToAnyShape ==
    op = "reshape_uniform" =>
        /\ outcome = "ok"
        /\ result.the_shape = args.shape
        /\ \A i \in IndexesOf(args.shape) :
              uniform_value(result, i) = args.value

\* the groups from the n-th on, one after another
RECURSIVE Flatten(_, _)
Flatten(groups, n) ==
    IF n > Len(groups) THEN <<>>
    ELSE groups[n] \o Flatten(groups, n + 1)

-----------------------------------------------------------------------------
(* arange                                                                  *)

MaxRange == 3

\* the int values arange is given
RangeInts == (0 - MaxRange) .. MaxRange

\* int / int: the quotient truncated toward zero
int_div(a, b) ==
    IF (a >= 0) = (b > 0) THEN abs(a) \div abs(b)
    ELSE 0 - (abs(a) \div abs(b))

\* arange(start, final, step): the extent of the returned array
arange_count(start, final, step) ==
    int_div(final, step) - int_div(start, step)

InitRange ==
    /\ PatternIdle
    /\ ProviderIdle

\* nd::arange(start, final, step), and a loop over the returned array
Arange(start, final, step) ==
    /\ op = "init"
    /\ op' = "arange"
    /\ args' = [start |-> start, final |-> final, step |-> step]
    /\ IF step = 0 \/ arange_count(start, final, step) < 0
       THEN /\ outcome' = "throws"
            /\ result_shape' = NoShape
            /\ result' = NoResult
       ELSE /\ outcome' = "ok"
            /\ result_shape' = <<arange_count(start, final, step)>>
            /\ LET accessor == make_access_pattern(result_shape')
                   seen == loop_indexes(accessor, pattern_begin(accessor))
               IN  result' = [k \in 1 .. Len(seen) |->
                                 start + seen[k][1] * step]
    /\ UNCHANGED <<region, array_shape, replacement_shape, current, visited,
                   local, mapped, unmapped, heap, prov>>

NextRange == \E start, final, step \in RangeInts : Arange(start, final, step)

SpecRange == InitRange /\ [][NextRange]_vars

\* whether x comes before final, going by step
Before(x, final, step) == IF step > 0 THEN x < final ELSE x > final

\* the number of values start, start + step, ... that come before final
CountBefore(start, final, step) ==
    Cardinality({k \in 0 .. 2 * MaxRange :
                    Before(start + k * step, final, step)})

\* C25: when arange(start, final, step) does not throw, the array returned
\* holds exactly the values start, start + step, start + 2 * step, ... that
\* come before final, for steps of either sign and for start and final that
\* are not multiples of step.
C25_ArangeStopsBeforeFinal ==
    (op = "arange" /\ outcome = "ok") =>
        /\ Len(result) = CountBefore(args.start, args.final, args.step)
        /\ \A k \in 1 .. Len(result) :
              result[k] = args.start + (k - 1) * args.step

\* C25 for start and final that are multiples of step
C25_ArangeOfMultiplesStopsBeforeFinal ==
    (/\ op = "arange"
     /\ outcome = "ok"
     /\ args.start % abs(args.step) = 0
     /\ args.final % abs(args.step) = 0) =>
        /\ Len(result) = CountBefore(args.start, args.final, args.step)
        /\ \A k \in 1 .. Len(result) :
              result[k] = args.start + (k - 1) * args.step

-----------------------------------------------------------------------------
(* Claims about reversed patterns, replace, evaluation and iteration      *)

\* C26: an access pattern whose final is less than its start on some axis
\* has size() 0 and is empty().
C26_ReversedPatternIsEmpty ==
    (region # NoPattern /\ ~Ordered(region)) =>
        /\ pattern_size(region) = 0
        /\ pattern_empty(region)

\* C27: after a successful A | replace(P, R), every index i of the
\* result's shape that P generates is read from R at P.inverse_map_index(i),
\* which R's shape contains.
C27_ReplaceReadsInsideReplacement ==
    (op = "replace" /\ outcome = "ok") =>
        \A i \in IndexesOf(array_shape) :
            generates(region, i) =>
                /\ result[i] = replacement_value(inverse_map_index(region, i))
                /\ shape_contains(replacement_shape,
                                  inverse_map_index(region, i))

\* C27 for regions with start <= final whose start and final are multiples
\* of jumps
C27_AlignedReplaceReadsInsideReplacement ==
    (/\ op = "replace"
     /\ outcome = "ok"
     /\ Ordered(region)
     /\ \A n \in 1 .. Len(region.start) :
           /\ region.start[n] % region.jumps[n] = 0
           /\ region.final[n] % region.jumps[n] = 0) =>
        \A i \in IndexesOf(array_shape) :
            generates(region, i) =>
                /\ result[i] = replacement_value(inverse_map_index(region, i))
                /\ shape_contains(replacement_shape,
                                  inverse_map_index(region, i))

\* the loop of an evaluation of the given shape stays in the shape: it sees
\* volume(shape) indexes, each contained in the shape and at an offset
\* inside a buffer of volume(shape) elements
LoopStaysInside(shape) ==
    LET accessor == make_access_pattern(shape)
        seen == loop_indexes(accessor, pattern_begin(accessor))
        strides == make_strides_row_major(shape)
    IN  /\ Len(seen) = volume(shape)
        /\ \A k \in 1 .. Len(seen) :
              /\ shape_contains(shape, seen[k])
              /\ compute_offset(strides, seen[k]) < volume(shape)

\* C28: an evaluation of an array of any shape, shapes of rank 2 with a zero
\* extent included, evaluates the source only at indexes of the shape and
\* writes volume elements, each inside the new block, so that no block that
\* was there before is changed.
C28_EvaluateStaysInsideShape ==
    [][op' \in {"evaluate", "evaluate_uniform"} =>
          /\ LoopStaysInside(prov'[args'.dst].the_shape)
          /\ \A a \in Addrs : heap[a].live => heap'[a] = heap[a]]_vars

\* C28 for shapes of rank 1 and shapes without a zero extent
C28_EvaluateOfFullShapeStaysInside ==
    [][(/\ op' \in {"evaluate", "evaluate_uniform"}
        /\ \/ Len(prov'[args'.dst].the_shape) = 1
           \/ volume(prov'[args'.dst].the_shape) > 0) =>
          /\ LoopStaysInside(prov'[args'.dst].the_shape)
          /\ \A a \in Addrs : heap[a].live => heap'[a] = heap[a]]_vars

-----------------------------------------------------------------------------
(* Multi-threaded evaluation: the evaluate_on<NumThreads> operator          *)
(*                                                                         *)
(* The array handed to evaluate_on is a computed array of shape            *)
(* array_shape whose every element is one value.  Slot 1 holds the unique  *)
(* provider the threads write into, result the access patterns of          *)
(* partition_shape, current[n] the iterator of thread n and visited[n] the *)
(* indexes thread n has assigned so far.  A thread's only access to shared *)
(* memory is the assignment provider(index) = ..., so one turn of its loop *)
(* is one step; a thread that is created later than another is a thread    *)
(* that takes its first step later.                                        *)

\* most threads evaluate_on is instantiated with
MaxThreads == 3

Threads == 1 .. Len(result)

InitThreads ==
    /\ op = "init"
    /\ region = NoPattern
    /\ array_shape \in ProviderShapes
    /\ replacement_shape = NoShape
    /\ outcome = "none"
    /\ result_shape = NoShape
    /\ result = NoResult
    /\ current = NoIndex
    /\ visited = <<>>
    /\ local = NoIndex
    /\ mapped = NoIndex
    /\ unmapped = NoIndex
    /\ heap = [a \in Addrs |-> Free]
    /\ prov = [p \in Slots |-> NoProvider]
    /\ args = <<>>

\* the offsets inside the buffer of provider pr that the indexes of seen
\* were assigned at
offsets_written(pr, seen) ==
    {compute_offset(pr.strides, seen[k]) : k \in 1 .. Len(seen)}
        \cap (0 .. pr.buffer.count - 1)

\* auto regions = nd::partition_shape<NumThreads>(array.shape())
regions_of(shape, NumThreads) ==
    [n \in 1 .. NumThreads |-> partition_pattern(shape, NumThreads, n)]

\* array | evaluate_on<NumThreads>(), up to the creation of the threads:
\* the provider is made, the shape partitioned, and each thread is handed
\* its accessor; array(index) is v at every index
EvaluateOn(NumThreads, v) ==
    /\ op = "init"
    /\ \E a \in FreeAddrs(heap) :
          /\ heap' = [heap EXCEPT ![a] =
                        block([k \in 1 .. volume(array_shape) |-> 0])]
          /\ prov' = [prov EXCEPT ![1] =
                 make_provider("unique", array_shape,
                     buffer_move(new_buffer(a, volume(array_shape))).taken)]
    /\ result' = regions_of(array_shape, NumThreads)
    /\ current' = [n \in 1 .. NumThreads |-> pattern_begin(result'[n])]
    /\ visited' = [n \in 1 .. NumThreads |-> <<>>]
    /\ op' = "evaluate_on"
    /\ outcome' = "none"
    /\ args' = [operator |-> "evaluate_on", value |-> v]
    /\ UNCHANGED <<region, array_shape, replacement_shape, result_shape,
                   local, mapped, unmapped>>

\* one turn of thread n's `for (auto index : accessor)`: the iterator
\* differs from end(), provider(index) = array(index) is assigned, then
\* ++it.  An assignment at an offset outside the block is undefined
\* behaviour (see overrun_once); so is an assignment to an element another
\* thread has assigned, a data race, after which the element holds any
\* value.
ThreadStep(n) ==
    /\ op = "evaluate_on"
    /\ n \in Threads
    /\ iterator_differs(current[n], pattern_end(result[n]))
    /\ LET pr == prov[1]
           offset == compute_offset(pr.strides, current[n])
           raced == \E m \in Threads \ {n} :
                       offset \in offsets_written(pr, visited[m])
       IN  IF offset < pr.buffer.count
           THEN \E w \in IF raced THEN Values ELSE {args.value} :
                   heap' = [heap EXCEPT ![pr.buffer.memory].cells =
                               [@ EXCEPT ![offset + 1] = w]]
           ELSE heap' \in overrun_once(heap)
    /\ visited' = [visited EXCEPT ![n] = Append(@, current[n])]
    /\ current' = [current EXCEPT ![n] = advance(result[n], current[n]).index]
    /\ UNCHANGED <<op, region, array_shape, replacement_shape, outcome,
                   result_shape, result, local, mapped, unmapped, prov,
                   args>>

\* every thread has left its loop
ThreadsDone ==
    \A n \in Threads : ~ iterator_differs(current[n], pattern_end(result[n]))

\* the threads are joined and nd::make_array(std::move(provider).shared())
\* is returned: the array is in slot 2
JoinThreads ==
    /\ op = "evaluate_on"
    /\ ThreadsDone
    /\ LET mv == buffer_move(prov[1].buffer)
       IN  prov' = [prov EXCEPT
                       ![1] = [prov[1] EXCEPT !.buffer = mv.left],
                       ![2] = make_provider("shared", prov[1].the_shape,
                                  mv.taken)]
    /\ op' = "joined"
    /\ outcome' = "ok"
    /\ UNCHANGED <<region, array_shape, replacement_shape, result_shape,
                   result, current, visited, local, mapped, unmapped, heap,
                   args>>

NextThreads ==
    \/ \E n \in 1 .. MaxThreads : \E v \in Values : EvaluateOn(n, v)
    \/ \E n \in 1 .. MaxThreads : ThreadStep(n)
    \/ JoinThreads

SpecThreads == InitThreads /\ [][NextThreads]_vars

\* the provider the threads assign through: moved into slot 2 by the join
target_provider == IF op = "joined" THEN prov[2] ELSE prov[1]

\* C29: in evaluate_on<N>, under every interleaving of the threads and for
\* every shape and N >= 1, no element of the unique buffer is assigned by
\* two different threads.
C29_ThreadsWriteDisjointElements ==
    op \in {"evaluate_on", "joined"} =>
        \A m \in Threads : \A n \in Threads \ {m} :
            offsets_written(target_provider, visited[m])
                \cap offsets_written(target_provider, visited[n]) = {}

\* C29 for shapes of rank 1, and shapes without a zero extent whose first
\* extent is at least the number of threads; there the joined array also
\* holds the value of the source at every element
C29_FullPartitionsWriteDisjointElements ==
    (/\ op \in {"evaluate_on", "joined"}
     /\ \/ Len(array_shape) = 1
        \/ /\ volume(array_shape) > 0
           /\ array_shape[1] >= Len(result)) =>
        /\ \A m \in Threads : \A n \in Threads \ {m} :
              offsets_written(target_provider, visited[m])
                  \cap offsets_written(target_provider, visited[n]) = {}
        /\ op = "joined" =>
              \A k \in 1 .. volume(array_shape) :
                 buffer_contents(heap, prov[2].buffer)[k] = args.value

-----------------------------------------------------------------------------
(* Running a cursor to the end of an access pattern                        *)
(*                                                                         *)
(* current is the cursor, outcome what the last call of advance returned.  *)
(* The patterns include extents at the top of std::size_t, where the       *)
(* increments of advance wrap.                                             *)

\* coordinates and extents, with the largest std::size_t
EdgeCoords == Coords \cup {SizeMax - 1}

EdgePatterns(r) ==
    [start : [1 .. r -> EdgeCoords], final : [1 .. r -> EdgeCoords],
     jumps : JumpSeqs(r)]

\* a cursor at begin() of any pattern with jumps >= 1
InitAdvance ==
    /\ ProviderIdle
    /\ op = "init"
    /\ \E r \in Ranks : region \in EdgePatterns(r)
    /\ array_shape = NoShape
    /\ replacement_shape = NoShape
    /\ outcome = "none"
    /\ result_shape = NoShape
    /\ result = NoResult
    /\ current = pattern_begin(region)
    /\ visited = <<>>
    /\ local = NoIndex
    /\ mapped = NoIndex
    /\ unmapped = NoIndex

\* while (region.advance(cursor)) { }: one call of advance, made as long as
\* the call before it returned true
AdvanceCursor ==
    /\ outcome # "end"
    /\ op' = "advance"
    /\ current' = advance(region, current).index
    /\ outcome' = IF advance(region, current).more THEN "more" ELSE "end"
    /\ UNCHANGED <<region, array_shape, replacement_shape, result_shape,
                   result, visited, local, mapped, unmapped, providerVars>>

NextAdvance == AdvanceCursor

\* the loop is the only thing the thread does: it keeps taking its step
SpecAdvance == InitAdvance /\ [][NextAdvance]_vars /\ WF_vars(AdvanceCursor)

\* advance has returned false and the cursor is the end sentinel
AtEnd == outcome = "end" /\ current = pattern_end(region)

\* C30: for every access pattern with jumps >= 1 on every axis, repeatedly
\* advancing a cursor that starts at start reaches the end sentinel after
\* finitely many steps: advance returns false and the cursor equals final.
C30_AdvanceReachesEnd == <>AtEnd

\* on no axis can an increment by jumps step over every value >= final
NoWrap(p) == \A n \in 1 .. Len(p.start) : p.final[n] + p.jumps[n] <= SizeMax

\* C30 for the patterns whose final + jumps does not exceed the range of
\* std::size_t on any axis
C30_AdvanceWithoutWrapReachesEnd == NoWrap(region) => <>AtEnd

=============================================================================
